---- MODULE Spec2Model ----
(***************************************************************************)
(* The call controller returned by useApiClientFactory(preferences)(config) *)
(* of src/src/hook.tsx, as a state machine.                                *)
(*                                                                         *)
(* The controller is a React hook.  Its state lives in useState cells; the *)
(* functions request, fetch, cancel, startPolling and stopPolling are      *)
(* re-created on every render and each of them reads the state values of   *)
(* the render that created it (a closure), while every setX writes the     *)
(* cell.  The model keeps both: the cells (response, loading, ...) and,    *)
(* for every piece of code that can still run, the values its closure      *)
(* captured (view for the functions the caller holds, the clo field of a   *)
(* pending request, of a retry timer and of a poll timer).                 *)
(***************************************************************************)
EXTENDS Integers, FiniteSets, Bags, TLC

(* ------------------------------ bounds -------------------------------- *)
\* transport invocations explored per behaviour
MaxCalls == 2
\* poll timers alive at the same time
MaxPollTimers == 2
\* clock readings after StartTime
MaxTicks == 2

(* --------------------------- value domains ---------------------------- *)
\* JavaScript null for response, cache and error
Null == "null"
\* no timer id / no cancel source in a useState cell (null)
None == 0
\* response.data of a successful transport call; "" is an empty body
Payloads == {"", "a", "b"}
\* rejection values of the transport that are not cancellations
Errors == {"E1", "E2"}
\* the rejection value of a cancelled transport call
CancelError == "Cancel"
\* Date.now() at construction
StartTime == 10
\* the ttl values a call is configured with (0: no ttl)
Ttls == {0, 2}
\* the refresh values a call is configured with (0: no polling)
Refreshes == {0, 1}
\* retry.maxRetryCount is left out of the preferences
NoMaxRetryCount == -1
\* retry.maxRetryCount: left out, or configured as 0 or as 1
MaxRetryCounts == {NoMaxRetryCount, 0, 1}
\* retry.retryCondition: not configured, or a predicate over the error that
\* returns true for E1 and false for E2
RetryConditions == {"none", "onlyE1"}
\* progress.progressMode; "unset" when the option is left out
ProgressModes == {"upload", "download", "both", "unset"}
\* progress.progressInterval in ms (0: left out)
ProgressIntervals == {0, 100}
\* progressEvent.loaded and progressEvent.total of a transport progress
\* event (total 0: the length is not computable): 2 of 5 sent when the
\* upload reports, 3 of 5 received when the download reports
Loaded(upload) == IF upload THEN 2 ELSE 3
Totals == {0, 5}
\* the levels logger() is called with; "trace" is none of the four known
Levels == {"debug", "info", "warn", "error", "trace"}
\* logging.logLevel; "unset" when left out, "verbose" an unknown value
LogLevels == {"debug", "info", "warn", "error", "verbose", "unset"}
\* the messages of logger(): start, completion and failure of a request
Messages == {"making", "completed", "failed"}

VARIABLES
  cfg,         \* preferences and config, fixed at construction
  response, loading, error, source, cache, cacheTime, intervalId,
  progress, retryCount, uploadProgress, downloadProgress,
  progressUpdateInterval,                     \* the useState cells
  view,        \* the cell values captured by the latest committed render
  now,         \* Date.now()
  inflight,    \* transport requests awaiting their answer
  retryTimers, \* armed setTimeout callbacks of the retry branch (a bag)
  pollTimers,  \* live setInterval timers of startPolling
  progressTimers, \* live setInterval timers of the progress sampling
  calls,       \* number of transport invocations so far
  last         \* the latest step of a request: its start or its completion

vars == <<cfg, response, loading, error, source, cache, cacheTime, intervalId,
          progress, retryCount, uploadProgress, downloadProgress,
          progressUpdateInterval, view, now, inflight, retryTimers,
          pollTimers, progressTimers, calls, last>>

cells == <<response, loading, error, source, cache, cacheTime, intervalId,
           progress, retryCount, uploadProgress, downloadProgress,
           progressUpdateInterval>>

\* the cells and timers of the progress sampling
progressVars ==
  <<uploadProgress, downloadProgress, progressUpdateInterval, progressTimers>>

(* ------------------------------ helpers ------------------------------- *)
\* JavaScript truthiness of a payload-valued cell
Truthy(v) == v # Null /\ v # ""

\* the cell values a render captures for the functions it creates
Snapshot ==
  [retryCount |-> retryCount, cache |-> cache, cacheTime |-> cacheTime,
   intervalId |-> intervalId, source |-> source,
   uploadProgress |-> uploadProgress, downloadProgress |-> downloadProgress,
   progressUpdateInterval |-> progressUpdateInterval]

\* the part of a render's closure that request() reads
RequestClosure(v) ==
  [retryCount |-> v.retryCount, cache |-> v.cache, cacheTime |-> v.cacheTime,
   uploadProgress |-> v.uploadProgress,
   downloadProgress |-> v.downloadProgress,
   progressUpdateInterval |-> v.progressUpdateInterval]

\* A transport request is reached only through the cancel source held by
\* the source cell or by the latest render, and a poll timer only through
\* the id held by the intervalId cell or by the latest render.  A request or
\* timer whose id is held nowhere can never be cancelled or cleared and its
\* id plays no role: it is kept under the id Orphan.
Orphan == -1

Anonymous(t, held) == IF t.id \in held THEN t ELSE [t EXCEPT !.id = Orphan]

RECURSIVE Copies(_, _, _, _)
\* the number of elements of ts (counted in bag) that Anonymous maps to u
Copies(bag, ts, held, u) ==
  IF ts = {} THEN 0
  ELSE LET t == CHOOSE x \in ts : TRUE
       IN (IF Anonymous(t, held) = u THEN bag[t] ELSE 0)
          + Copies(bag, ts \ {t}, held, u)

\* bag with every id outside held replaced by Orphan
Forget(bag, held) ==
  [u \in {Anonymous(t, held) : t \in BagToSet(bag)} |->
     Copies(bag, BagToSet(bag), held, u)]

\* a new id (of a cancel source, of a timer) that neither place holds
FreshId(inCell, inView) ==
  CHOOSE i \in 1..3 :
    /\ i \notin {inCell, inView}
    /\ \A j \in 1..(i - 1) : j \in {inCell, inView}

\* preferences.retry?.maxRetryCount || 3
DefaultMaxRetryCount == 3
MaxRetryCount ==
  IF cfg.maxRetryCount \notin {NoMaxRetryCount, 0}
    THEN cfg.maxRetryCount ELSE DefaultMaxRetryCount

\* preferences.retry.retryCondition(error)
RetryCondition(e) == cfg.retryCondition = "onlyE1" /\ e = "E1"

\* log: what the step passed to the log sink
Step(op) ==
  [op |-> op, hit |-> FALSE, err |-> Null, path |-> "none", exc |-> Null,
   log |-> {}]

(* ------------------------------- Init --------------------------------- *)
InitialResponse == Null
InitialLoadingBusy == TRUE
InitialLoading == FALSE
InitialError == Null
InitialProgress == 0

InitialView ==
  [retryCount |-> 0, cache |-> Null, cacheTime |-> 0, intervalId |-> None,
   source |-> None, uploadProgress |-> 0, downloadProgress |-> 0,
   progressUpdateInterval |-> None]

\* the configurations a controller is created with.  Without enableRetry
\* the other retry options are never read.  To keep the state space small,
\* caching and polling are explored one at a time, and a missing
\* onException without either, as is a maxRetryCount configured as 0 (the
\* code reads it as it reads a missing one); preferences.progress and
\* preferences.logging are left out here and explored by ProgressConfigs
\* and LoggerConfigs.
Configs ==
  { c \in [enableRetry : BOOLEAN, maxRetryCount : MaxRetryCounts,
           retryCondition : RetryConditions, onException : BOOLEAN,
           ttl : Ttls, refresh : Refreshes,
           progress : {FALSE}, progressMode : {"unset"},
           progressInterval : {0},
           enableLogging : {FALSE}, logLevel : {"unset"},
           logFunction : {FALSE}] :
      /\ ~c.enableRetry =>
           c.maxRetryCount = NoMaxRetryCount /\ c.retryCondition = "none"
      /\ c.ttl = 0 \/ c.refresh = 0
      /\ ~c.onException => c.ttl = 0 /\ c.refresh = 0
      /\ c.maxRetryCount = 0 => c.ttl = 0 /\ c.refresh = 0 }

\* the configurations with preferences.progress present: no retry, no
\* cache, no polling, no logging
ProgressConfigs ==
  [enableRetry : {FALSE}, maxRetryCount : {NoMaxRetryCount},
   retryCondition : {"none"}, onException : {TRUE}, ttl : {0},
   refresh : {0},
   progress : {TRUE}, progressMode : ProgressModes,
   progressInterval : ProgressIntervals,
   enableLogging : {FALSE}, logLevel : {"unset"}, logFunction : {FALSE}]

\* the configurations with preferences.logging present: no retry, no
\* cache, no polling, no progress
LoggerConfigs ==
  [enableRetry : {FALSE}, maxRetryCount : {NoMaxRetryCount},
   retryCondition : {"none"}, onException : {TRUE}, ttl : {0},
   refresh : {0},
   progress : {FALSE}, progressMode : {"unset"}, progressInterval : {0},
   enableLogging : BOOLEAN, logLevel : LogLevels, logFunction : BOOLEAN]

\* the state after the first render and its effect: with refresh set the
\* effect has called startPolling of the first render
Initial ==
  /\ response = InitialResponse
  /\ loading = InitialLoading
  /\ error = InitialError
  /\ source = None
  /\ cache = Null
  /\ cacheTime = 0
  /\ progress = InitialProgress
  /\ retryCount = 0
  /\ view = InitialView
  /\ intervalId = IF cfg.refresh # 0 THEN 1 ELSE None
  /\ pollTimers = IF cfg.refresh # 0
                    THEN SetToBag({[id |-> 1, clo |-> RequestClosure(InitialView)]})
                    ELSE EmptyBag
  /\ now = StartTime
  /\ inflight = EmptyBag
  /\ retryTimers = EmptyBag
  /\ uploadProgress = 0
  /\ downloadProgress = 0
  /\ progressUpdateInterval = None
  /\ progressTimers = {}
  /\ calls = 0
  /\ last = Step("init")

Init == cfg \in Configs /\ Initial

(* ------------------------------ logger() ------------------------------ *)
\* the switch on logLevel: whether a message of level is let through
ShouldLogWarnAdmitsInfo(logLevel, level) ==
  CASE logLevel = "debug" -> TRUE
    [] logLevel = "info" -> level \in {"info", "warn", "error"}
    [] logLevel = "warn" -> level \in {"info", "warn", "error"}
    [] logLevel = "error" -> level = "error"
    [] OTHER -> FALSE
ShouldLog(logLevel, level) ==
  CASE logLevel = "debug" -> TRUE
    [] logLevel = "info" -> level \in {"info", "warn", "error"}
    [] logLevel = "warn" -> level \in {"warn", "error"}
    [] logLevel = "error" -> level = "error"
    [] OTHER -> FALSE

\* `[${level}] ${message}`, the line written to the console
LogMessage(level, message) == <<"[", level, "] ", message>>

\* what logger(level, message) passes to the sink: nothing, the call
\* logFunction(level, message) or the call console.log(logMessage)
Logger(level, message) ==
  IF ~cfg.enableLogging \/ ~ShouldLog(cfg.logLevel, level)
    THEN {}
    ELSE IF cfg.logFunction
           THEN {[via |-> "logFunction", args |-> <<level, message>>]}
           ELSE {[via |-> "console",
                  args |-> <<LogMessage(level, message)>>]}

\* logger(level, message) on its own, for any level and message
LoggerCall(level, message) ==
  /\ last' = [Step("log") EXCEPT !.log = Logger(level, message)]
  /\ UNCHANGED <<cfg, cells, view, now, inflight, retryTimers, pollTimers,
                 progressTimers, calls>>

(* ------------------------------ progress ------------------------------ *)
\* Math.round((progressEvent.loaded * 100) / progressEvent.total), for
\* loaded >= 0 and total > 0
PercentCompleted(loaded, total) ==
  (2 * loaded * 100 + total) \div (2 * total)

\* the value triggerProgressChange() sets from the uploadProgress and
\* downloadProgress of its closure.  The values explored have an even sum,
\* for which the division by 2 is exact.
ProgressValue(up, down) ==
  CASE cfg.progressMode = "upload" -> up
    [] cfg.progressMode = "download" -> down
    [] OTHER -> (up + down) \div 2

\* preferences.progress && preferences.progress.progressInterval
ProgressEnabled == cfg.progress /\ cfg.progressInterval # 0

\* the ids of progress timers that are live or that some closure or cell
\* still holds
HeldProgressIds ==
  {progressUpdateInterval, view.progressUpdateInterval}
    \cup {r.clo.progressUpdateInterval : r \in BagToSet(inflight)}
    \cup {c.progressUpdateInterval : c \in BagToSet(retryTimers)}
    \cup {t.clo.progressUpdateInterval : t \in BagToSet(pollTimers)}
    \cup {t.id : t \in progressTimers}

\* the id setInterval returns for a new progress timer
FreshProgressId ==
  CHOOSE i \in 1..(Cardinality(HeldProgressIds) + 1) :
    /\ i \notin HeldProgressIds
    /\ \A j \in 1..(i - 1) : j \in HeldProgressIds

\* if (progressUpdateInterval) clearInterval(progressUpdateInterval)
ClearProgressInterval(id, timers) ==
  {t \in timers : id = None \/ t.id # id}

\* the live progress timers after the interval setup of request() run by
\* the closure clo: the timer calls triggerProgressChange() of that closure
StartProgressTimers(clo) ==
  IF ProgressEnabled
    THEN ClearProgressInterval(clo.progressUpdateInterval, progressTimers)
           \cup {[id |-> FreshProgressId,
                   uploadProgress |-> clo.uploadProgress,
                   downloadProgress |-> clo.downloadProgress]}
    ELSE progressTimers

\* the progressUpdateInterval cell after the interval setup
StartProgressId ==
  IF ProgressEnabled THEN FreshProgressId ELSE progressUpdateInterval

\* the progress timer t fires: triggerProgressChange() of its closure
ProgressTick(t) ==
  /\ t \in progressTimers
  /\ progress' = IF cfg.progress
                   THEN ProgressValue(t.uploadProgress, t.downloadProgress)
                   ELSE progress
  /\ UNCHANGED <<cfg, response, loading, error, source, cache, cacheTime,
                 intervalId, retryCount, progressVars, view, now, inflight,
                 retryTimers, pollTimers, calls, last>>

\* the transport reports progress of the pending request r: updateProgress
\* with setUploadProgress (upload) or setDownloadProgress
ProgressEvent(r, upload, loaded, total) ==
  /\ BagIn(r, inflight)
  /\ uploadProgress' = IF upload /\ total # 0
                         THEN PercentCompleted(loaded, total)
                         ELSE uploadProgress
  /\ downloadProgress' = IF ~upload /\ total # 0
                           THEN PercentCompleted(loaded, total)
                           ELSE downloadProgress
  /\ UNCHANGED <<cfg, response, loading, error, source, cache, cacheTime,
                 intervalId, progress, retryCount, progressUpdateInterval,
                 progressTimers, view, now, inflight, retryTimers,
                 pollTimers, calls, last>>

(* ----------------------------- request() ------------------------------ *)
\* config.ttl && cache && cacheTime + config.ttl > Date.now(), read by the
\* closure clo of the running request
CacheValidAtBoundary(clo) ==
  cfg.ttl # 0 /\ Truthy(clo.cache) /\ clo.cacheTime + cfg.ttl >= now
CacheValid(clo) ==
  cfg.ttl # 0 /\ Truthy(clo.cache) /\ clo.cacheTime + cfg.ttl > now

\* setLoading(false) of the outer finally
OuterFinallyLoadingStuck == TRUE
OuterFinallyLoading == FALSE

\* the pending transport calls after axiosInstance.request() was called by
\* the closure clo with the token of the cancel source id
PendingSingleFlight(clo, id) ==
  IF inflight = EmptyBag
    THEN SetToBag({[id |-> id, clo |-> clo, cancelled |-> FALSE]})
    ELSE inflight
Pending(clo, id) ==
  inflight (+) SetToBag({[id |-> id, clo |-> clo, cancelled |-> FALSE]})

\* setError(null) at the start of request()
ErrorAtStartKept == error
ErrorAtStart == Null

\* CancelToken.source(): a new cancel source
FreshSourceId == FreshId(source, view.source)

\* request() up to its first suspension point, run by the closure clo.
\* A cache hit runs to the end of the function in the same step (no await
\* is reached); otherwise the transport is invoked and the function waits.
Request(clo, step) ==
  /\ error' = ErrorAtStart
  /\ progress' = 0
  /\ uploadProgress' = 0
  /\ downloadProgress' = 0
  /\ progressUpdateInterval' = StartProgressId
  /\ source' = FreshSourceId
  /\ IF CacheValid(clo)
       THEN /\ loading' = OuterFinallyLoading
            /\ last' = [step EXCEPT !.hit = TRUE,
                                    !.log = Logger("info", "making")]
            /\ inflight' = Forget(inflight, {source', view.source})
            /\ progressTimers' =
                 ClearProgressInterval(clo.progressUpdateInterval,
                                       StartProgressTimers(clo))
            /\ UNCHANGED calls
       ELSE /\ calls < MaxCalls
            /\ loading' = TRUE
            /\ calls' = calls + 1
            /\ inflight' = Forget(Pending(clo, source'),
                                  {source', view.source})
            /\ progressTimers' = StartProgressTimers(clo)
            /\ last' = [step EXCEPT !.log = Logger("info", "making")]
  /\ UNCHANGED <<cfg, response, cache, cacheTime, intervalId, retryCount,
                 view, now, pollTimers>>

\* fetch() of the latest render, called by the consumer
Fetch ==
  /\ Request(RequestClosure(view), Step("fetch"))
  /\ UNCHANGED retryTimers

\* a poll timer fires: the request() of the render that armed it runs
PollFire(t) ==
  /\ BagIn(t, pollTimers)
  /\ Request(t.clo, Step("poll"))
  /\ UNCHANGED retryTimers

\* a retry timer fires: the request() that armed it runs again
RetryFire(c) ==
  /\ BagIn(c, retryTimers)
  /\ retryTimers' = retryTimers (-) SetToBag({c})
  /\ Request(c, Step("retry"))

(* ------------------------ transport completions ----------------------- *)
\* the cache cell after a response with payload d: if (config.ttl)
\* setCache(response.data)
CachedPayloadAlways(d) == d
CachedPayloadFirstOnly(d) == IF cfg.ttl # 0 /\ cache = Null THEN d ELSE cache
CachedPayload(d) == IF cfg.ttl # 0 THEN d ELSE cache

\* the transport call of r resolves with payload d
Success(r, d) ==
  /\ BagIn(r, inflight) /\ ~r.cancelled
  /\ cache' = CachedPayload(d)
  /\ cacheTime' = IF cfg.ttl # 0 THEN now ELSE cacheTime
  /\ response' = d
  /\ source' = None
  /\ loading' = OuterFinallyLoading
  /\ inflight' = Forget(inflight (-) SetToBag({r}), {view.source})
  /\ progressTimers' =
       ClearProgressInterval(r.clo.progressUpdateInterval, progressTimers)
  /\ last' = [Step("success") EXCEPT !.log = Logger("info", "completed")]
  /\ UNCHANGED <<cfg, error, intervalId, progress, retryCount,
                 uploadProgress, downloadProgress, progressUpdateInterval,
                 view, now, retryTimers, pollTimers, calls>>

\* what the transport call of r can reject with: the cancellation once
\* source.cancel() was called on its token, an error otherwise
Rejections(r) == IF r.cancelled THEN {CancelError} ELSE Errors

\* axios.isCancel(error)
IsCancelNever(e) == FALSE
IsCancel(e) == e = CancelError

\* the branch the inner catch takes for a non-cancellation error e
FailurePathUnconditional(clo, e) ==
  IF cfg.enableRetry /\ clo.retryCount < MaxRetryCount
    THEN IF cfg.retryCondition # "none" THEN "retry" ELSE "swallowed"
    ELSE "exhausted"
FailurePath(clo, e) ==
  IF cfg.enableRetry /\ clo.retryCount < MaxRetryCount
    THEN IF cfg.retryCondition # "none"
           THEN IF ~RetryCondition(e) THEN "rejected" ELSE "retry"
           ELSE "swallowed"
    ELSE "exhausted"

\* the branch the inner catch takes for the rejection e
CatchPath(clo, e) == IF IsCancel(e) THEN "cancelled" ELSE FailurePath(clo, e)

\* whether the inner catch rethrows to the outer catch
Thrown(path) == path \in {"rejected", "exhausted"}

\* the transport call of r rejects with e
Reject(r, e) ==
  LET path == CatchPath(r.clo, e)
      told == Thrown(path) /\ cfg.onException
  IN
  /\ BagIn(r, inflight) /\ e \in Rejections(r)
  /\ retryCount' = CASE path = "retry" -> r.clo.retryCount + 1
                     [] path = "exhausted" -> 0
                     [] OTHER -> retryCount
  /\ retryTimers' = IF path = "retry"
                      THEN retryTimers (+) SetToBag({r.clo})
                      ELSE retryTimers
  /\ error' = IF Thrown(path) THEN e ELSE error
  /\ source' = None
  /\ loading' = OuterFinallyLoading
  /\ inflight' = Forget(inflight (-) SetToBag({r}), {view.source})
  /\ progressTimers' =
       ClearProgressInterval(r.clo.progressUpdateInterval, progressTimers)
  /\ last' = [Step(IF path = "cancelled" THEN "cancelled" ELSE "failure")
                EXCEPT !.err = e, !.path = path,
                       !.exc = IF told THEN e ELSE Null,
                       !.log = IF path = "cancelled"
                                 THEN {} ELSE Logger("error", "failed")]
  /\ UNCHANGED <<cfg, response, cache, cacheTime, intervalId, progress,
                 uploadProgress, downloadProgress, progressUpdateInterval,
                 view, now, pollTimers, calls>>

(* ------------------------------ cancel() ------------------------------ *)
\* the pending requests that source.cancel() of the closure v cancels
CancelTargets(v) ==
  {r \in BagToSet(inflight) :
     v.source # None /\ r.id = v.source /\ ~r.cancelled}

\* cancel() of the latest render, called by the consumer
Cancel ==
  LET hitRequests == CancelTargets(view) IN
  /\ inflight' = [r \in {IF x \in hitRequests
                              THEN [x EXCEPT !.cancelled = TRUE] ELSE x :
                            x \in BagToSet(inflight)} |->
                     IF r.id = Orphan THEN inflight[r] ELSE 1]
  /\ UNCHANGED <<cfg, cells, view, now, retryTimers, pollTimers,
                 progressTimers, calls, last>>

(* ------------------------------ polling ------------------------------- *)
\* pollTimers is the bag of live setInterval timers, each with its id and
\* the closure whose request() it runs.
\* the live timers left by clearInterval(intervalId) in stopPolling() of the
\* closure v
StopPollingTimers(v, timers) ==
  LET left == {t \in BagToSet(timers) :
                 v.intervalId = None \/ t.id # v.intervalId}
  IN [t \in left |-> timers[t]]

\* the intervalId cell after stopPolling() of the closure v
StopPollingId(v, id) == IF v.intervalId # None THEN None ELSE id

\* the id setInterval returns
FreshTimerId == FreshId(intervalId, view.intervalId)

\* the live timers after startPolling() of the closure v (refresh set)
StartPollingTimers(v, timers) ==
  StopPollingTimers(v, timers) (+)
    SetToBag({[id |-> FreshTimerId, clo |-> RequestClosure(v)]})

\* polling.resume() of the latest render
Resume ==
  /\ IF cfg.refresh # 0
       THEN /\ intervalId' = FreshTimerId
            /\ pollTimers' = Forget(StartPollingTimers(view, pollTimers),
                                    {intervalId', view.intervalId})
            /\ BagCardinality(pollTimers') <= MaxPollTimers
       ELSE UNCHANGED <<pollTimers, intervalId>>
  /\ UNCHANGED <<cfg, response, loading, error, source, cache, cacheTime,
                 progress, retryCount, progressVars, view, now, inflight,
                 retryTimers, calls, last>>

\* polling.pause() of the latest render
Pause ==
  /\ intervalId' = StopPollingId(view, intervalId)
  /\ pollTimers' = Forget(StopPollingTimers(view, pollTimers),
                          {intervalId', view.intervalId})
  /\ UNCHANGED <<cfg, response, loading, error, source, cache, cacheTime,
                 progress, retryCount, progressVars, view, now, inflight,
                 retryTimers, calls, last>>

(* ------------------------------ render -------------------------------- *)
\* React commits a render after a state change: the functions are created
\* anew over the current cells.  The polling effect depends on fetch, which
\* is new on every render, so on every commit its cleanup (stopPolling of
\* the previous render) and then its body (startPolling of the new render
\* when refresh is set) run.
Render ==
  /\ view # Snapshot
  /\ view' = Snapshot
  /\ IF cfg.refresh # 0
       THEN /\ intervalId' = FreshTimerId
            /\ pollTimers' =
                 Forget(StartPollingTimers(Snapshot,
                                           StopPollingTimers(view, pollTimers)),
                        {intervalId', view'.intervalId})
            /\ BagCardinality(pollTimers') <= MaxPollTimers
       ELSE /\ intervalId' = StopPollingId(view, intervalId)
            /\ pollTimers' = Forget(StopPollingTimers(view, pollTimers),
                                    {intervalId', view'.intervalId})
  /\ inflight' = Forget(inflight, {source})
  /\ UNCHANGED <<cfg, response, loading, error, source, cache, cacheTime,
                 progress, retryCount, progressVars, now, retryTimers, calls,
                 last>>

(* ------------------------------- time --------------------------------- *)
\* Date.now() advances.  The clock is only ever compared with a cache
\* timestamp, so it is advanced once a timestamp has been written.
Tick ==
  /\ cacheTime # 0
  /\ now < StartTime + MaxTicks
  /\ now' = now + 1
  /\ UNCHANGED <<cfg, cells, view, inflight, retryTimers, pollTimers,
                 progressTimers, calls, last>>

(* --------------------------- specification ---------------------------- *)
Next ==
  \/ Fetch
  \/ \E t \in BagToSet(pollTimers) : PollFire(t)
  \/ \E c \in BagToSet(retryTimers) : RetryFire(c)
  \/ \E r \in BagToSet(inflight), d \in Payloads : Success(r, d)
  \/ \E r \in BagToSet(inflight) : \E e \in Rejections(r) : Reject(r, e)
  \/ Cancel
  \/ Resume
  \/ Pause
  \/ Render
  \/ Tick

Spec == Init /\ [][Next]_vars

\* transport completions are not postponed for ever
Completes ==
  \E r \in BagToSet(inflight) :
    \/ \E d \in Payloads : Success(r, d)
    \/ \E e \in Rejections(r) : Reject(r, e)

FairSpec == Spec /\ WF_vars(Completes)

\* One fetch() against a transport that fails every time with an error that
\* the retryCondition, when configured, accepts; maxRetryCount is 3 and no
\* poll timer fires.
InitRetry == Init /\ cfg.enableRetry /\ MaxRetryCount = 3

FirstFetch == calls = 0 /\ Fetch

AcceptedErrors ==
  {e \in Errors : cfg.retryCondition = "none" \/ RetryCondition(e)}

NextRetry ==
  \/ FirstFetch
  \/ \E c \in BagToSet(retryTimers) : RetryFire(c)
  \/ \E r \in BagToSet(inflight) : \E e \in AcceptedErrors : Reject(r, e)
  \/ Resume
  \/ Pause
  \/ Render

SpecRetry == InitRetry /\ [][NextRetry]_vars

\* Requests of a controller with preferences.progress, the transport
\* reporting upload and download progress while a request is pending and
\* answering with one payload or one error.
InitProgress == cfg \in ProgressConfigs /\ Initial

NextProgress ==
  \/ Fetch
  \/ \E r \in BagToSet(inflight) : Success(r, "a")
  \/ \E r \in BagToSet(inflight) : Reject(r, "E1")
  \/ \E r \in BagToSet(inflight), upload \in BOOLEAN, total \in Totals :
       ProgressEvent(r, upload, Loaded(upload), total)
  \/ \E t \in progressTimers : ProgressTick(t)
  \/ Render

SpecProgress == InitProgress /\ [][NextProgress]_vars

\* logger() applied to every level and message, and the requests of a
\* controller with preferences.logging.
InitLogger == cfg \in LoggerConfigs /\ Initial

NextLogger ==
  \/ \E level \in Levels, message \in Messages : LoggerCall(level, message)
  \/ Fetch
  \/ \E r \in BagToSet(inflight), d \in Payloads : Success(r, d)
  \/ \E r \in BagToSet(inflight) : \E e \in Rejections(r) : Reject(r, e)

SpecLogger == InitLogger /\ [][NextLogger]_vars

TypeOK ==
  /\ cfg \in Configs \cup ProgressConfigs \cup LoggerConfigs
  /\ uploadProgress \in 0..100 /\ downloadProgress \in 0..100
  /\ progress \in 0..100
  /\ response \in Payloads \cup {Null}
  /\ loading \in BOOLEAN
  /\ error \in Errors \cup {Null}
  /\ cache \in Payloads \cup {Null}
  /\ calls \in 0..MaxCalls
  /\ BagCardinality(pollTimers) <= MaxPollTimers
  /\ BagCardinality(inflight) <= calls
  /\ retryCount \in 0..MaxRetryCount
  /\ source \in 0..3
  /\ intervalId \in 0..3

(* ------------------------------ claims -------------------------------- *)
\* a request is started: by fetch(), by a poll timer or by a retry timer
StartsRequest ==
  \/ Fetch
  \/ \E t \in BagToSet(pollTimers) : PollFire(t)
  \/ \E c \in BagToSet(retryTimers) : RetryFire(c)

\* C1: until the first request is started (by fetch() or by a timer), the
\* controller shows response = null, loading = false, error = null and
\* progress = 0, whatever the configuration.
C1_FreshController ==
  last.op = "init" =>
    response = Null /\ loading = FALSE /\ error = Null /\ progress = 0

\* a fresh controller with retry and polling configured, after a re-render
\* of the consumer
C1_Witness ==
  /\ last.op = "init" /\ cfg.enableRetry /\ cfg.refresh # 0
  /\ view.intervalId # None
  /\ response = Null /\ ~loading /\ error = Null /\ progress = 0

\* C2: with ttl > 0, a fetch() of the current render called less than ttl
\* after the timestamp of a cached response does not invoke the transport
\* and leaves response equal to the cached payload.
C2_FreshCacheServed ==
  [][ ( /\ Fetch
        /\ cfg.ttl > 0 /\ cache # Null /\ now - cacheTime < cfg.ttl
        /\ view = Snapshot )
      => (calls' = calls /\ response' = cache) ]_vars

\* C3: once now - cacheTime >= ttl (the boundary included), and always
\* when no ttl is configured, a request that is started invokes the
\* transport.
C3_ExpiredCacheRefetches ==
  [][ (StartsRequest /\ (cfg.ttl = 0 \/ now - cacheTime >= cfg.ttl))
      => (calls' = calls + 1 /\ ~last'.hit) ]_vars

\* a fetch() of a render that knows the cached payload invoked the
\* transport exactly ttl after the cache timestamp
C3_Witness ==
  /\ last.op = "fetch" /\ ~last.hit
  /\ cfg.ttl # 0 /\ Truthy(cache) /\ now - cacheTime = cfg.ttl
  /\ \E r \in BagToSet(inflight) :
       r.clo.cache = cache /\ r.clo.cacheTime = cacheTime

\* C4: with enableRetry and maxRetryCount = 3, one fetch() against a
\* transport that always fails invokes the transport exactly 4 times; error
\* is set only after the 4th failure, with retryCount 0 and no retry armed.
C4_FourInvocationsThenError ==
  /\ calls <= MaxRetryCount + 1
  /\ error # Null =>
       calls = MaxRetryCount + 1 /\ retryCount = 0 /\ retryTimers = EmptyBag
  /\ (calls > 0 /\ inflight = EmptyBag /\ retryTimers = EmptyBag) =>
       calls = MaxRetryCount + 1 /\ error # Null /\ retryCount = 0

\* the request r fails with an error for which the configured
\* retryCondition returns false
RejectedByCondition(r, e) ==
  /\ Reject(r, e) /\ e \in Errors
  /\ cfg.enableRetry /\ cfg.retryCondition # "none" /\ ~RetryCondition(e)

\* C5 as stated: such a failure sets error, reaches onException, arms no
\* retry timer and leaves retryCount unchanged.
C5_RejectedKeepsRetryCount ==
  [][ \A r \in BagToSet(inflight) : \A e \in Errors :
        RejectedByCondition(r, e) =>
          /\ error' = e
          /\ cfg.onException => last'.exc = e
          /\ retryTimers' = retryTimers
          /\ retryCount' = retryCount
          /\ calls' = calls ]_vars

\* C5 as amended: retryCount is left unchanged while the retryCount the
\* request captured is below maxRetryCount, and is reset to 0 otherwise.
C5_RejectedIsTerminal ==
  [][ \A r \in BagToSet(inflight) : \A e \in Errors :
        RejectedByCondition(r, e) =>
          /\ error' = e
          /\ cfg.onException => last'.exc = e
          /\ retryTimers' = retryTimers
          /\ retryCount' = IF r.clo.retryCount < MaxRetryCount
                             THEN retryCount ELSE 0
          /\ calls' = calls ]_vars

\* a failure the retryCondition rejected, below the retry budget, has set
\* error and reached onException
C5_Witness ==
  /\ last.op = "failure" /\ last.path = "rejected"
  /\ error = last.err /\ last.exc = last.err
  /\ retryTimers = EmptyBag /\ retryCount = 0

C7_AtMostOnePollTimer == BagCardinality(pollTimers) <= 1

\* C8: a non-cancellation failure either arms a retry or is terminal, in
\* which case error is set to it and onException, when configured, is
\* invoked with it; never neither.
C8_FailureRetriedOrSurfaced ==
  [][ \A r \in BagToSet(inflight) : \A e \in Errors :
        Reject(r, e) =>
          \/ /\ BagCardinality(retryTimers') = BagCardinality(retryTimers) + 1
             /\ error' = error
             /\ last'.exc = Null
          \/ /\ retryTimers' = retryTimers
             /\ error' = e
             /\ cfg.onException => last'.exc = e ]_vars

\* C9: loading is false whenever no request is pending and after every
\* path that finished (success, failure, cancellation, cache hit); with
\* transport completions not postponed for ever, loading = true always
\* leads to loading = false.
C9_LoadingReturnsToFalse ==
  /\ [](inflight = EmptyBag => ~loading)
  /\ []((last.op \in {"success", "failure", "cancelled"} \/ last.hit)
          => ~loading)
  /\ (loading ~> ~loading)

\* a request has failed terminally and loading is false again
C9_Witness ==
  /\ last.op = "failure" /\ Thrown(last.path)
  /\ ~loading /\ inflight = EmptyBag

\* C10 as stated: at most one transport request is pending.
C10_AtMostOnePending == BagCardinality(inflight) <= 1

\* the step adds one pending request unless the closure clo is served from
\* the cache
AddsRequest(clo) ==
  BagCardinality(inflight') =
    BagCardinality(inflight) + (IF CacheValid(clo) THEN 0 ELSE 1)

\* C10 as amended: every started request that is not served from the cache
\* adds exactly one pending transport request, also while other requests
\* are pending or a retry timer is armed; no step adds more than one.
C10_OneRequestPerAttempt ==
  /\ [](BagCardinality(inflight) <= calls)
  /\ [][ /\ Fetch => AddsRequest(RequestClosure(view))
         /\ \A t \in BagToSet(pollTimers) : PollFire(t) => AddsRequest(t.clo)
         /\ \A c \in BagToSet(retryTimers) : RetryFire(c) => AddsRequest(c)
         /\ BagCardinality(inflight') <= BagCardinality(inflight) + 1 ]_vars

\* a fetch() was started while another request was pending
C10_Witness ==
  /\ last.op = "fetch" /\ ~last.hit
  /\ BagCardinality(inflight) = 2

\* the maxRetryCount the preferences configure, 3 when they leave it out
ConfiguredMaxRetryCount ==
  IF cfg.maxRetryCount = NoMaxRetryCount
    THEN DefaultMaxRetryCount ELSE cfg.maxRetryCount

\* C11: retryCount is always between 0 and the configured maxRetryCount
\* (3 when none is configured), for every configured maxRetryCount >= 0.
C11_RetryCountWithinConfiguredMax ==
  retryCount \in 0..ConfiguredMaxRetryCount

\* the progress the cells uploadProgress and downloadProgress stand for
\* under the configured mode
ShownProgress ==
  CASE cfg.progressMode = "upload" -> uploadProgress
    [] cfg.progressMode = "download" -> downloadProgress
    [] OTHER -> (uploadProgress + downloadProgress) \div 2

\* C12: a sampling tick sets progress to uploadProgress in mode upload, to
\* downloadProgress in mode download and to their mean otherwise, taken
\* from the values the latest transport progress callbacks have set.
C12_TickShowsLatestProgress ==
  [][ \A t \in progressTimers :
        ProgressTick(t) => progress' = ShownProgress ]_vars

\* the hierarchy debug > info > warn > error: the configured level admits
\* the level of a message
Admits(configured, level) ==
  \/ configured = "debug"
  \/ configured = "info" /\ level \in {"info", "warn", "error"}
  \/ configured = "warn" /\ level \in {"warn", "error"}
  \/ configured = "error" /\ level = "error"

\* the step passes to the sink exactly the message of that level, when it
\* is admitted, and nothing otherwise
PassesExactly(level, message) ==
  IF cfg.enableLogging /\ Admits(cfg.logLevel, level)
    THEN /\ last'.log # {}
         /\ \A x \in last'.log :
              IF cfg.logFunction
                THEN x.via = "logFunction" /\ x.args = <<level, message>>
                ELSE x.via = "console"
                     /\ x.args = << <<"[", level, "] ", message>> >>
    ELSE last'.log = {}

\* C13: logger passes a message of level L to the sink exactly when
\* logging is enabled and the configured level admits L (debug admits all,
\* info admits info/warn/error, warn admits warn/error, error admits error,
\* any other or missing level admits nothing); the message a request logs
\* when it starts is one of level info.
C13_LoggerFiltersByLevel ==
  [][ /\ \A level \in Levels, message \in Messages :
           LoggerCall(level, message) => PassesExactly(level, message)
      /\ Fetch => PassesExactly("info", "making") ]_vars

\* under level warn a message of level warn reached the logFunction
C13_Witness ==
  /\ last.op = "log" /\ cfg.enableLogging /\ cfg.logLevel = "warn"
  /\ last.log = {[via |-> "logFunction", args |-> <<"warn", "failed">>]}

\* C14: with retry enabled and retryCount below maxRetryCount, a failure
\* that is not a cancellation increments retryCount by one and arms exactly
\* one retry timer, both without a retryCondition and with one that returns
\* true for the error.
C14_FailureBelowBudgetRetries ==
  [][ \A r \in BagToSet(inflight) : \A e \in Errors :
        ( /\ Reject(r, e)
          /\ cfg.enableRetry /\ retryCount < MaxRetryCount
          /\ cfg.retryCondition = "none" \/ RetryCondition(e) )
        => ( /\ retryCount' = retryCount + 1
             /\ BagCardinality(retryTimers') =
                  BagCardinality(retryTimers) + 1 ) ]_vars

\* C15: retryCount is 0 after every request that ends in success and after
\* every give-up.
C15_RetryCountZeroAfterEnd ==
  (last.op = "success" \/ (last.op = "failure" /\ last.path = "exhausted"))
    => retryCount = 0

\* C16: cache and cacheTime change only in the step that handles a
\* successful response with ttl configured, where they become the payload
\* and the current time; every other step (failure, cancellation, cache
\* hit, cancel(), resume(), pause()) leaves them alone, and without ttl the
\* cache stays empty.
C16_CacheWrittenOnlyBySuccess ==
  /\ [](cfg.ttl = 0 => cache = Null /\ cacheTime = 0)
  /\ [][ /\ (cache' # cache \/ cacheTime' # cacheTime) =>
              /\ cfg.ttl # 0
              /\ \E r \in BagToSet(inflight), d \in Payloads :
                   Success(r, d) /\ cache' = d /\ cacheTime' = now
         /\ \A r \in BagToSet(inflight), d \in Payloads :
              (Success(r, d) /\ cfg.ttl # 0) =>
                cache' = d /\ cacheTime' = now
         /\ \A r \in BagToSet(inflight) : \A e \in Errors \cup {CancelError} :
              Reject(r, e) => cache' = cache /\ cacheTime' = cacheTime
         /\ (Cancel \/ Resume \/ Pause \/ StartsRequest) =>
              cache' = cache /\ cacheTime' = cacheTime ]_vars

\* a second successful response has replaced the cached payload and its
\* timestamp, later than the first
C16_Witness ==
  /\ cfg.ttl # 0 /\ last.op = "success" /\ calls = 2
  /\ cache = response /\ cacheTime = now /\ now > StartTime

C18_OneProgressTimerClearedAtEnd ==
  /\ Cardinality(progressTimers) <= 1
  /\ (last.op \in {"success", "failure"} /\ inflight = EmptyBag)
       => progressTimers = {}

\* C19: the source cell is non-null only while a transport request is
\* pending: it is null after every finished path (success, failure,
\* cancellation, cache hit), and while requests are pending it is the
\* cancel source of one of them.
C19_HandleOnlyWhileInFlight ==
  /\ ((last.op \in {"success", "failure", "cancelled"} \/ last.hit)
        /\ inflight = EmptyBag) => source = None
  /\ source # None => \E r \in BagToSet(inflight) : r.id = source
  /\ inflight # EmptyBag => source # None

\* C20: with ttl configured, whenever the cache holds a payload, response
\* equals it, also after overlapping requests completed in any order and
\* after a fetch served from the cache.
C20_ResponseEqualsCache ==
  (cfg.ttl # 0 /\ cache # Null) => response = cache

\* two overlapping requests have completed and a later fetch() was served
\* from the cache
C20_Witness ==
  /\ cfg.ttl # 0 /\ last.hit /\ calls = 2 /\ inflight = EmptyBag
  /\ Truthy(cache) /\ response = cache

====
